---- MODULE Spec2Model ----
(***************************************************************************)
(* Model of the fruit-catch game runtime, js/gameEngine.js (class          *)
(* GameEngine) and the lane input of js/main.js (handlePrediction).        *)
(*                                                                         *)
(* Every method of GameEngine is an operator from an engine record to an   *)
(* engine record; every event-loop callback (click on start, stop(), a     *)
(* prediction, an animation frame, the 1 s interval) is one action that    *)
(* runs its handler to completion.                                         *)
(*                                                                         *)
(* The two history variables record which callback ran last and the calls  *)
(* it made, each logged when it returns (so a gameOver made by handleMiss  *)
(* precedes the record of that handleMiss).  They are written, never read, *)
(* by the methods.                                                         *)
(*                                                                         *)
(* Frame timestamps and performance.now() share the clock now.  A frame    *)
(* comes 0 or LongDelta ms after the previous one, so it spawns exactly    *)
(* when its delay is long.  The play area is GameHeight px tall: with 0    *)
(* the catch-band is [-100, -20], an item is inside it from its spawn at   *)
(* -50 until it passes -20, and it is missed once it passes 0.             *)
(***************************************************************************)
EXTENDS Integers, Sequences, FiniteSets, TLC

VARIABLES
  score,          \* this.score
  level,          \* this.level
  timeLeft,       \* this.timeLeft
  lives,          \* this.lives
  state,          \* this.state: "STOPPED", "RUNNING", "GAMEOVER"
  basketZone,     \* this.basketZone
  items,          \* this.items: sequence of [type, score, zone, y]
  lastSpawnTime,  \* this.lastSpawnTime
  spawnInterval,  \* this.spawnInterval (ms)
  baseSpeed,      \* this.baseSpeed (px per frame)
  rafQueue,       \* pending requestAnimationFrame callbacks, oldest first;
                  \* TRUE marks the request this.gameLoopId names
  intervals,      \* number of live setInterval timers
  timerInterval,  \* TRUE iff this.timerInterval names a live timer
  overlayDesc,    \* this.overlayDesc.innerText, the exposed reason
  now,            \* the clock of performance.now() and of frame timestamps
  handler,        \* history: the callback that ran last
  events          \* history: the calls made inside that callback, in order

vars == <<score, level, timeLeft, lives, state, basketZone, items,
          lastSpawnTime, spawnInterval, baseSpeed, rafQueue, intervals,
          timerInterval, overlayDesc, now, handler, events>>

----------------------------------------------------------------------------
(* Program constants *)

StartTime == 60            \* seconds of a session
StartLives == 3
StartSpawnInterval == 2000
StartSpeed == 3
LevelPeriod == 20          \* seconds between level-ups
IntervalStep == 300
MinSpawnInterval == 500
SpawnY == -50              \* a new item starts above the screen
ItemHeight == 50
BasketTopOffset == 100
BasketBottomOffset == 20

Zones == {"LEFT", "CENTER", "RIGHT"}

\* this.itemTypes: type -> score
ItemTypes == [apple |-> 100, pear |-> 150, orange |-> 200, bomb |-> 0]

TypeNames == DOMAIN ItemTypes

MissReason == "Too many fruits missed!"
BombReason == "You caught a Bomb!"
TimeReason == "Time's Up!"

----------------------------------------------------------------------------
(* Bounds of the model *)

GameHeight == 0            \* offsetHeight of #game-area, fixed during a run
LongDelta == 2001          \* a frame delay longer than the first spawn interval
MaxPending == 2            \* start() is pressed with fewer pending frames

\* what a classifier may report besides the three lanes
ClassNames == Zones \cup {"UP"}

----------------------------------------------------------------------------
(* Helpers *)

Max(a, b) == IF a >= b THEN a ELSE b

\* Array.prototype.splice(index, 1), index counted from 1
Splice(seq, index) ==
  [k \in 1..(Len(seq) - 1) |-> IF k < index THEN seq[k] ELSE seq[k + 1]]

Log(g, e) == [g EXCEPT !.events = Append(@, e)]

\* the record of one handleMiss or handleCatch call: the item it was given
\* and the session before (0) and after (1) it
Effect(op, item, g, after) ==
  [op |-> op, item |-> item,
   lives0 |-> g.lives, lives1 |-> after.lives,
   score0 |-> g.score, score1 |-> after.score,
   state0 |-> g.state, state1 |-> after.state,
   count0 |-> Len(g.items), count1 |-> Len(after.items)]

\* requestAnimationFrame(cb) assigned to this.gameLoopId
RequestFrame(g) ==
  [g EXCEPT !.rafQueue = Append([k \in 1..Len(@) |-> FALSE], TRUE)]

\* cancelAnimationFrame(this.gameLoopId): a no-op for an id that already ran
CancelFrame(g) ==
  [g EXCEPT !.rafQueue = SelectSeq(@, LAMBDA mark : ~mark)]

\* clearInterval(this.timerInterval): a no-op for null or a cleared id
ClearTimer(g) ==
  IF g.timerInterval
  THEN [g EXCEPT !.intervals = @ - 1, !.timerInterval = FALSE]
  ELSE g

\* this.timerInterval = setInterval(cb, 1000)
SetTimer(g) ==
  [g EXCEPT !.intervals = @ + 1, !.timerInterval = TRUE]

----------------------------------------------------------------------------
(* GameEngine methods *)

SetBasketZone(g, zone) == [g EXCEPT !.basketZone = zone]

Stop(g) ==
  ClearTimer(CancelFrame(Log([g EXCEPT !.state = "STOPPED"], [op |-> "stop"])))

GameOver(g, reason) ==
  Log([Stop(g) EXCEPT !.state = "GAMEOVER", !.overlayDesc = reason],
      [op |-> "gameOver", reason |-> reason])

\* resetGame() that forgets to reset the speed
ResetGameKeepsSpeed(g) ==
  SetBasketZone(
    [g EXCEPT !.score = 0, !.level = 1, !.timeLeft = StartTime,
              !.lives = StartLives, !.items = <<>>,
              !.spawnInterval = StartSpawnInterval],
    "CENTER")

\* resetGame() starting the clock one second above the 60 of a session
ResetGameLongClock(g) ==
  SetBasketZone(
    [g EXCEPT !.score = 0, !.level = 1, !.timeLeft = StartTime + 1,
              !.lives = StartLives, !.items = <<>>,
              !.spawnInterval = StartSpawnInterval, !.baseSpeed = StartSpeed],
    "CENTER")

ResetGame(g) ==
  SetBasketZone(
    [g EXCEPT !.score = 0, !.level = 1, !.timeLeft = StartTime,
              !.lives = StartLives, !.items = <<>>,
              !.spawnInterval = StartSpawnInterval, !.baseSpeed = StartSpeed],
    "CENTER")

\* start() without its guard on the running state
StartUnguarded(g, clock) ==
  SetTimer(RequestFrame(
    [Log(ResetGame(g), [op |-> "resetGame"])
       EXCEPT !.state = "RUNNING", !.lastSpawnTime = clock]))

Start(g, clock) ==
  IF g.state = "RUNNING" THEN g
  ELSE SetTimer(RequestFrame(
         [Log(ResetGame(g), [op |-> "resetGame"])
            EXCEPT !.state = "RUNNING", !.lastSpawnTime = clock]))

\* levelUp() that computes the interval from the level before the increment
LevelUpStaleLevel(g) ==
  Log([g EXCEPT !.level = @ + 1,
                !.baseSpeed = @ + 1,
                !.spawnInterval =
                   Max(MinSpawnInterval,
                       StartSpawnInterval - (g.level - 1) * IntervalStep)],
      [op |-> "levelUp"])

LevelUp(g) ==
  Log([g EXCEPT !.level = @ + 1,
                !.baseSpeed = @ + 1,
                !.spawnInterval =
                   Max(MinSpawnInterval,
                       StartSpawnInterval - ((g.level + 1) - 1) * IntervalStep)],
      [op |-> "levelUp"])

\* the timer callback ending the session only below zero
TimerCallbackLate(g) ==
  LET ticked == [g EXCEPT !.timeLeft = @ - 1]
      levelled == IF (StartTime - ticked.timeLeft) % LevelPeriod = 0
                     /\ ticked.timeLeft # StartTime
                  THEN LevelUp(ticked) ELSE ticked
  IN  IF levelled.timeLeft < 0 THEN GameOver(levelled, TimeReason)
      ELSE levelled

\* the callback given to setInterval in start()
TimerCallback(g) ==
  LET ticked == [g EXCEPT !.timeLeft = @ - 1]
      levelled == IF (StartTime - ticked.timeLeft) % LevelPeriod = 0
                     /\ ticked.timeLeft # StartTime
                  THEN LevelUp(ticked) ELSE ticked
  IN  IF levelled.timeLeft <= 0 THEN GameOver(levelled, TimeReason)
      ELSE levelled

SpawnItem(g, zone, type) ==
  [g EXCEPT !.items = Append(@, [type |-> type, score |-> ItemTypes[type],
                                 zone |-> zone, y |-> SpawnY])]

SpawnSystem(g, timestamp, zone, type) ==
  IF timestamp - g.lastSpawnTime > g.spawnInterval
  THEN [SpawnItem(g, zone, type) EXCEPT !.lastSpawnTime = timestamp]
  ELSE g

\* handleMiss() without the test for a bomb
HandleMissAnyItem(g, index) ==
  LET item == g.items[index]
      removed == [g EXCEPT !.items = Splice(@, index)]
      lost == [removed EXCEPT !.lives = @ - 1]
      after == IF lost.lives <= 0 THEN GameOver(lost, MissReason) ELSE lost
  IN  Log(after, Effect("miss", item, g, after))

\* handleMiss ending the session only once lives is below 0
HandleMissBelowZero(g, index) ==
  LET item == g.items[index]
      removed == [g EXCEPT !.items = Splice(@, index)]
      lost == [removed EXCEPT !.lives = @ - 1]
      after == IF item.type # "bomb"
               THEN IF lost.lives < 0 THEN GameOver(lost, MissReason) ELSE lost
               ELSE removed
  IN  Log(after, Effect("miss", item, g, after))

HandleMiss(g, index) ==
  LET item == g.items[index]
      removed == [g EXCEPT !.items = Splice(@, index)]
      lost == [removed EXCEPT !.lives = @ - 1]
      after == IF item.type # "bomb"
               THEN IF lost.lives <= 0 THEN GameOver(lost, MissReason) ELSE lost
               ELSE removed
  IN  Log(after, Effect("miss", item, g, after))

\* the forEach of updateItems removing an item only once it is wholly below
\* the play area
RECURSIVE ForEachItemLate(_, _, _)
ForEachItemLate(g, k, len) ==
  IF k > len \/ k > Len(g.items) THEN g
  ELSE LET moved == [g EXCEPT !.items[k].y = @ + g.baseSpeed]
       IN  ForEachItemLate(IF moved.items[k].y > GameHeight + ItemHeight
                           THEN HandleMiss(moved, k) ELSE moved,
                           k + 1, len)

\* this.items.forEach((item, index) => ...): the indices 0..len-1 of the array
\* as it was when forEach began are visited in order, and an index that no
\* longer exists when its turn comes is passed over.  k counts from 1.
RECURSIVE ForEachItem(_, _, _)
ForEachItem(g, k, len) ==
  IF k > len \/ k > Len(g.items) THEN g
  ELSE LET moved == [g EXCEPT !.items[k].y = @ + g.baseSpeed]
       IN  ForEachItem(IF moved.items[k].y > GameHeight
                       THEN HandleMiss(moved, k) ELSE moved,
                       k + 1, len)

UpdateItems(g) == ForEachItem(g, 1, Len(g.items))

\* handleCatch() that charges a caught bomb a life, as a miss would
HandleCatchBombCostsLife(g, index) ==
  LET item == g.items[index]
      removed == [g EXCEPT !.items = Splice(@, index)]
      after == IF item.type = "bomb"
               THEN GameOver([removed EXCEPT !.lives = @ - 1], BombReason)
               ELSE [removed EXCEPT !.score = @ + item.score]
  IN  Log(after, Effect("catch", item, g, after))

\* handleCatch() that assigns the item's score instead of adding it
HandleCatchSetsScore(g, index) ==
  LET item == g.items[index]
      removed == [g EXCEPT !.items = Splice(@, index)]
      after == IF item.type = "bomb" THEN GameOver(removed, BombReason)
               ELSE [removed EXCEPT !.score = item.score]
  IN  Log(after, Effect("catch", item, g, after))

HandleCatch(g, index) ==
  LET item == g.items[index]
      removed == [g EXCEPT !.items = Splice(@, index)]
      after == IF item.type = "bomb" THEN GameOver(removed, BombReason)
               ELSE [removed EXCEPT !.score = @ + item.score]
  IN  Log(after, Effect("catch", item, g, after))

BasketTop == GameHeight - BasketTopOffset
BasketBottom == GameHeight - BasketBottomOffset

InBand(item) ==
  item.y + ItemHeight >= BasketTop /\ item.y <= BasketBottom

\* the collision scan without the test of the lane
RECURSIVE CollisionScanAnyLane(_, _)
CollisionScanAnyLane(g, i) ==
  IF i < 1 THEN g
  ELSE CollisionScanAnyLane(IF InBand(g.items[i]) THEN HandleCatch(g, i) ELSE g,
                            i - 1)

\* for (let i = this.items.length - 1; i >= 0; i--); i counts from 1
RECURSIVE CollisionScan(_, _)
CollisionScan(g, i) ==
  IF i < 1 THEN g
  ELSE CollisionScan(IF InBand(g.items[i]) /\ g.items[i].zone = g.basketZone
                     THEN HandleCatch(g, i) ELSE g,
                     i - 1)

CheckCollisions(g) == CollisionScan(g, Len(g.items))

Loop(g, timestamp, zone, type) ==
  IF g.state # "RUNNING" THEN g
  ELSE RequestFrame(CheckCollisions(UpdateItems(
         SpawnSystem(Log(g, [op |-> "frame"]), timestamp, zone, type))))

----------------------------------------------------------------------------
(* The engine as a record, and its write-back *)

Engine ==
  [score |-> score, level |-> level, timeLeft |-> timeLeft, lives |-> lives,
   state |-> state, basketZone |-> basketZone, items |-> items,
   lastSpawnTime |-> lastSpawnTime, spawnInterval |-> spawnInterval,
   baseSpeed |-> baseSpeed, rafQueue |-> rafQueue, intervals |-> intervals,
   timerInterval |-> timerInterval, overlayDesc |-> overlayDesc,
   events |-> <<>>]

Commit(g, name) ==
  /\ score' = g.score
  /\ level' = g.level
  /\ timeLeft' = g.timeLeft
  /\ lives' = g.lives
  /\ state' = g.state
  /\ basketZone' = g.basketZone
  /\ items' = g.items
  /\ lastSpawnTime' = g.lastSpawnTime
  /\ spawnInterval' = g.spawnInterval
  /\ baseSpeed' = g.baseSpeed
  /\ rafQueue' = g.rafQueue
  /\ intervals' = g.intervals
  /\ timerInterval' = g.timerInterval
  /\ overlayDesc' = g.overlayDesc
  /\ events' = g.events
  /\ handler' = name

\* constructor
Init ==
  /\ score = 0
  /\ level = 1
  /\ timeLeft = StartTime
  /\ lives = StartLives
  /\ state = "STOPPED"
  /\ basketZone = "CENTER"
  /\ items = <<>>
  /\ lastSpawnTime = 0
  /\ spawnInterval = StartSpawnInterval
  /\ baseSpeed = StartSpeed
  /\ rafQueue = <<>>
  /\ intervals = 0
  /\ timerInterval = FALSE
  /\ overlayDesc = ""
  /\ now = 0
  /\ handler = "constructor"
  /\ events = <<>>

----------------------------------------------------------------------------
(* Callbacks *)

\* click on #start-btn, or start() called by the host
StartCall ==
  /\ Len(rafQueue) < MaxPending
  /\ Commit(Start(Engine, now), "start")
  /\ now' = now

\* stop() called by the host
StopCall ==
  /\ Commit(Stop(Engine), "stop")
  /\ now' = now

\* handlePrediction: the classifier's top class name, upper-cased
Prediction(className) ==
  /\ Commit(SetBasketZone(Engine, className), "setBasketZone")
  /\ now' = now

\* the oldest pending animation-frame callback runs, delta ms after the
\* previous timestamp; zone and type are the draws of Math.random()
FrameTick(delta, zone, type) ==
  /\ rafQueue # <<>>
  /\ Commit(Loop([Engine EXCEPT !.rafQueue = Tail(@)], now + delta, zone, type),
            "loop")
  /\ now' = now + delta

\* a live interval timer fires
TimerTick ==
  /\ intervals > 0
  /\ Commit(TimerCallback(Engine), "timer")
  /\ now' = now

----------------------------------------------------------------------------
(* Specifications *)

\* a frame at now + delta reaches spawnItem(), so Math.random() is drawn
WillSpawn(delta) ==
  state = "RUNNING" /\ now + delta - lastSpawnTime > spawnInterval

Draws(S, delta) == IF WillSpawn(delta) THEN S ELSE {CHOOSE x \in S : TRUE}

\* frames with the delays, zones and types given; the clock stays within
\* maxNow, and a long delay comes only with fewer than maxItems live items
Frames(deltas, zones, types, maxNow, maxItems) ==
  \E d \in deltas :
    /\ now + d <= maxNow
    /\ d > 0 => Len(items) < maxItems
    /\ \E z \in Draws(zones, d), t \in Draws(types, d) : FrameTick(d, z, t)

\* The wall clock in full; one live item at a time, MaxSpawns in a behaviour
MaxSpawns == 1

Next ==
  \/ StartCall
  \/ StopCall
  \/ \E c \in {"LEFT", "CENTER", "UP"} : Prediction(c)
  \/ Frames({0, LongDelta}, {"LEFT", "CENTER"}, {"apple", "bomb"},
            MaxSpawns * LongDelta, 1)
  \/ TimerTick

Spec == Init /\ [][Next]_vars

\* Two live items at a time, PlaySpawns in a behaviour; the first MaxTicks
\* seconds of the wall clock
MaxTicks == 1
PlaySpawns == 4

NextPlay ==
  \/ StartCall
  \/ StopCall
  \/ \E c \in {"LEFT", "CENTER"} : Prediction(c)
  \/ Frames({0, LongDelta}, {"LEFT", "CENTER"}, {"apple", "bomb"},
            PlaySpawns * LongDelta, 2)
  \/ (timeLeft > StartTime - MaxTicks /\ TimerTick)

SpecPlay == Init /\ [][NextPlay]_vars

\* Apples spawned in consecutive frames and never caught, the wall clock in
\* full: the frames come LongDelta apart while the clock allows, then at once
DriftSpawns == 5

NextDrift ==
  \/ StartCall
  \/ Frames(IF now < DriftSpawns * LongDelta THEN {LongDelta} ELSE {0},
            {"LEFT"}, {"apple"}, DriftSpawns * LongDelta, DriftSpawns)
  \/ TimerTick

SpecDrift == Init /\ [][NextDrift]_vars

----------------------------------------------------------------------------
\* The wall clock in full and fair: setInterval keeps calling the callback
\* while the timer is registered. One item spawned in a behaviour, in the
\* lane start() puts the basket in; the classifier moves the basket away.
NextLive ==
  \/ StartCall
  \/ StopCall
  \/ Prediction("LEFT")
  \/ Frames({0, LongDelta}, {"CENTER"}, {"apple", "bomb"}, LongDelta, 1)
  \/ TimerTick

SpecLive == Init /\ [][NextLive]_vars /\ WF_vars(TimerTick)

-----------------------------------------------------------------------------
(* Reading the history variables *)

\* the last callback was an animation frame that found the game running
Processed == handler = "loop" /\ events # <<>>

\* positions in events of the handleMiss / handleCatch calls
Misses == {i \in DOMAIN events : events[i].op = "miss"}
Catches == {i \in DOMAIN events : events[i].op = "catch"}

\* the last callback called stop() or gameOver()
Ended == \E i \in DOMAIN events : events[i].op \in {"stop", "gameOver"}

\* start() ran past its guard
FreshStart == handler = "start" /\ events # <<>>

----------------------------------------------------------------------------
(* Claims *)

\* C1: in every reachable state lives >= 0; one frame tick never takes lives
\* below 0, however many items leave the play area in the same pass.
C1_LivesNeverNegative == lives >= 0

\* C2: basketLane is one of LEFT, CENTER, RIGHT in every reachable state: a
\* lane input outside the three leaves it unchanged.
C2_BasketLaneValid == basketZone \in Zones

\* C3: a bomb that overlaps the catch-band in the basket's lane in a frame
\* tick is removed and ends the session: the catch itself changes neither
\* score nor lives, the tick ends in GAMEOVER with reason "You caught a
\* Bomb!", and no bomb is left in the band in the basket's lane.
C3_BombCatchEndsSession ==
  Processed =>
    /\ \A i \in Catches :
         events[i].item.type = "bomb" =>
           /\ events[i].score1 = events[i].score0
           /\ events[i].lives1 = events[i].lives0
           /\ events[i].count1 = events[i].count0 - 1
           /\ state = "GAMEOVER"
           /\ overlayDesc = BombReason
    /\ \A k \in DOMAIN items :
         ~(items[k].type = "bomb" /\ InBand(items[k])
             /\ items[k].zone = basketZone)

\* C3 witness: a frame tick caught a bomb, among other calls of the tick.
C3_Witness ==
  /\ Processed
  /\ \E i \in Catches : events[i].item.type = "bomb"
  /\ Len(events) > 4

\* C4: a non-bomb item past the play-area height is removed and costs exactly
\* one life; when that brings lives to 0, the frame tick ends in GAMEOVER
\* with reason "Too many fruits missed!".
C4_FruitMissEndsSession ==
  Processed =>
    \A i \in Misses :
      events[i].item.type # "bomb" =>
        /\ events[i].lives1 = events[i].lives0 - 1
        /\ events[i].count1 = events[i].count0 - 1
        /\ events[i].lives1 = 0 =>
             state = "GAMEOVER" /\ overlayDesc = MissReason

\* C5: a bomb past the play-area height is removed with lives, score and
\* state as they were.
C5_BombMissHarmless ==
  Processed =>
    \A i \in Misses :
      events[i].item.type = "bomb" =>
        /\ events[i].lives1 = events[i].lives0
        /\ events[i].score1 = events[i].score0
        /\ events[i].state1 = events[i].state0
        /\ events[i].count1 = events[i].count0 - 1

\* C5 witness: a frame tick missed a bomb after a life had been lost.
C5_Witness ==
  /\ Processed
  /\ \E i \in Misses : events[i].item.type = "bomb" /\ events[i].lives0 < StartLives

\* C6: the wall-clock tick that brings timeRemaining to 0 leaves the state
\* GAMEOVER with reason "Time's Up!"; timeRemaining is never negative.
C6_TimeUpEndsSession ==
  /\ timeLeft >= 0
  /\ (handler = "timer" /\ timeLeft = 0) =>
       state = "GAMEOVER" /\ overlayDesc = TimeReason

\* C6 witness: the clock ran out on a session that had scored.
C6_Witness == handler = "timer" /\ timeLeft = 0 /\ score > 0

\* C7: except in the reset of start(), level, fallSpeed and spawnIntervalMs
\* change only in a wall-clock tick after which 60 - timeRemaining is a
\* positive multiple of 20; in each such tick level and fallSpeed grow by 1
\* and spawnIntervalMs becomes max(500, 2000 - (level-1)*300); spawnIntervalMs
\* never grows and is never below 500.
C7Step ==
  LET elapsed == StartTime - timeLeft'
      due == /\ handler' = "timer"
             /\ elapsed > 0
             /\ elapsed % LevelPeriod = 0
  IN  \/ FreshStart'
      \/ /\ due
         /\ level' = level + 1
         /\ baseSpeed' = baseSpeed + 1
         /\ spawnInterval' =
              Max(MinSpawnInterval,
                  StartSpawnInterval - (level' - 1) * IntervalStep)
         /\ spawnInterval' <= spawnInterval
         /\ spawnInterval' >= MinSpawnInterval
      \/ /\ ~due
         /\ UNCHANGED <<level, baseSpeed, spawnInterval>>

C7_LevelSchedule == [][C7Step]_vars

\* C7 witness: the third level-up of a session has happened.
C7_Witness ==
  /\ handler = "timer"
  /\ \E i \in DOMAIN events : events[i].op = "levelUp"
  /\ level = 4

\* C8: start() while RUNNING changes nothing of the session and registers
\* neither a frame callback nor a timer.
C8Step ==
  (handler' = "start" /\ state = "RUNNING") =>
    UNCHANGED <<score, level, timeLeft, lives, state, items, basketZone,
                spawnInterval, baseSpeed, lastSpawnTime, rafQueue, intervals,
                timerInterval>>

C8_StartWhileRunning == [][C8Step]_vars

\* C8 witness: start() returned at its guard, in a session under way.
C8_Witness ==
  /\ handler = "start"
  /\ events = <<>>
  /\ state = "RUNNING"
  /\ timeLeft < StartTime
  /\ items # <<>>

\* C9: start() in STOPPED or GAMEOVER yields a fresh session: RUNNING, score
\* 0, level 1, timeRemaining 60, lives 3, no live items, spawnIntervalMs 2000,
\* fallSpeed 3, basket in CENTER, lastSpawnTime = now.
C9Step ==
  (handler' = "start" /\ state # "RUNNING") =>
    /\ state' = "RUNNING"
    /\ score' = 0
    /\ level' = 1
    /\ timeLeft' = 60
    /\ lives' = 3
    /\ items' = <<>>
    /\ spawnInterval' = 2000
    /\ baseSpeed' = 3
    /\ basketZone' = "CENTER"
    /\ lastSpawnTime' = now'

C9_StartIsFresh == [][C9Step]_vars

\* C9 witness: start() began a session after one that had run out of time.
C9_Witness == FreshStart /\ overlayDesc = TimeReason /\ now > 0

\* C10: when a callback that called stop() or gameOver() has run to
\* completion, no frame callback and no wall-clock timer is registered.
C10_LoopsCancelled == Ended => (rafQueue = <<>> /\ intervals = 0)

\* the scoreValues of the non-bomb items caught by the calls logged in es
RECURSIVE CaughtScore(_)
CaughtScore(es) ==
  IF es = <<>> THEN 0
  ELSE (IF es[1].op = "catch" /\ es[1].item.type # "bomb"
        THEN ItemTypes[es[1].item.type] ELSE 0)
       + CaughtScore(Tail(es))

\* C11: score is always >= 0; every step other than the reset of start()
\* leaves score equal or larger, and it grows by exactly the scoreValues of
\* the non-bomb items caught in that step.
C11Step ==
  /\ score >= 0
  /\ score' >= 0
  /\ \/ FreshStart'
     \/ /\ score' >= score
        /\ score' - score = CaughtScore(events')

C11_ScoreMonotone == [][C11Step]_vars

\* C11 witness: a frame tick caught a fruit on top of an earlier score.
C11_Witness ==
  /\ Processed
  /\ \E i \in Catches : events[i].item.type # "bomb" /\ events[i].score0 > 0

\* the handleMiss / handleCatch calls of the last callback, in order
Effects == SelectSeq(events, LAMBDA e : e.op \in {"miss", "catch"})

\* C12: Spawner, Simulation and CollisionResolver act only while RUNNING: no
\* item is missed or caught, and score and lives do not change, once the
\* state has left RUNNING, the rest of a frame tick that ended the session
\* included.
C12_OnlyWhileRunning ==
  \A i \in DOMAIN Effects : Effects[i].state0 = "RUNNING"

\* C13: the collision pass of a frame tick catches exactly the items inside
\* the catch-band in the basket's lane: each item caught is in the band and
\* in the lane, a non-bomb one is removed and adds exactly its scoreValue,
\* nothing else is removed, and afterwards no live item is both in the band
\* and in the basket's lane.
C13_CatchInBandAndLane ==
  Processed =>
    /\ \A i \in Catches :
         /\ InBand(events[i].item)
         /\ events[i].item.zone = basketZone
         /\ events[i].count1 = events[i].count0 - 1
         /\ events[i].item.type # "bomb" =>
              events[i].score1 = events[i].score0 + ItemTypes[events[i].item.type]
    /\ \A i \in 1..(Len(Effects) - 1) : Effects[i + 1].count0 = Effects[i].count1
    /\ Effects # <<>> => Effects[Len(Effects)].count1 = Len(items)
    /\ \A k \in DOMAIN items :
         ~(InBand(items[k]) /\ items[k].zone = basketZone)

\* C13 witness: a frame tick caught a fruit and left an item of another lane
\* that is inside the band.
C13_Witness ==
  /\ Processed
  /\ \E i \in Catches : events[i].item.type # "bomb"
  /\ \E k \in DOMAIN items : InBand(items[k]) /\ items[k].zone # basketZone

\* C14: after a bomb is caught in the collision scan of a frame tick, no
\* other item is caught in that tick and score does not change.
C14_NothingAfterBomb ==
  Processed =>
    \A i \in Catches :
      events[i].item.type = "bomb" =>
        /\ \A j \in Catches : j <= i
        /\ score = events[i].score1

RECURSIVE SumY(_)
SumY(seq) == IF seq = <<>> THEN 0 ELSE seq[1].y + SumY(Tail(seq))

\* the items handed to handleMiss / handleCatch, as logged
Removed(es) == [i \in DOMAIN es |-> es[i].item]

\* C15: in a frame tick processed while RUNNING every item live at the start
\* of the Simulation pass (a new item from the Spawner included) moves down by
\* exactly fallSpeed: the positions of the items that stay or are removed in
\* the tick add up to the old positions plus fallSpeed for each of them.
C15Step ==
  Processed' =>
    LET gone == SelectSeq(events', LAMBDA e : e.op \in {"miss", "catch"})
        passed == Len(items') + Len(gone)
        spawned == passed - Len(items)
    IN  SumY(items') + SumY(Removed(gone))
          = SumY(items) + spawned * SpawnY + passed * baseSpeed

C15_EveryItemMoves == [][C15Step]_vars

\* C16: after every Simulation pass, and so between any two callbacks, no
\* live item has a verticalPosition beyond the play-area height.
C16_NoItemBelowArea ==
  \A k \in DOMAIN items : items[k].y <= GameHeight

\* C16 witness: a pass removed an item as a miss and left others live, one of
\* them passed over by the pass at the edge of the play area.
C16_Witness ==
  /\ Processed
  /\ Misses # {}
  /\ Len(items) >= 2
  /\ \E k \in DOMAIN items : items[k].y + baseSpeed > GameHeight

\* the handleMiss / handleCatch call of the last callback that took the
\* state from RUNNING to GAMEOVER: a fruit missed with lives going 1 -> 0, or
\* a bomb caught
EndedByItem(es) ==
  \E i \in DOMAIN es :
    /\ es[i].op \in {"miss", "catch"}
    /\ es[i].state0 = "RUNNING" /\ es[i].state1 = "GAMEOVER"
    /\ \/ es[i].op = "miss" /\ es[i].item.type # "bomb"
          /\ es[i].lives0 = 1 /\ es[i].lives1 = 0
       \/ es[i].op = "catch" /\ es[i].item.type = "bomb"

C17Step ==
  /\ state' = "RUNNING" => lives' >= 1 /\ timeLeft' >= 1
  /\ (state # "GAMEOVER" /\ state' = "GAMEOVER") =>
       /\ state = "RUNNING"
       /\ \/ handler' = "timer" /\ timeLeft = 1 /\ timeLeft' = 0
          \/ handler' = "loop" /\ EndedByItem(events')

\* C17: between callbacks the state agrees with the end conditions: RUNNING
\* implies lives >= 1 and timeRemaining >= 1, and the state becomes GAMEOVER
\* only in a callback in which lives reaches 0 on a missed fruit,
\* timeRemaining reaches 0, or a bomb is caught.
C17_StateAgreesWithEnd == [][C17Step]_vars

\* C17 witness: a frame tick in which the third fruit was missed, lives
\* reached 0 and the state went from RUNNING to GAMEOVER.
C17_Witness ==
  /\ Processed
  /\ state = "GAMEOVER"
  /\ lives = 0
  /\ \E i \in Misses : events[i].lives1 = 0 /\ events[i].state0 = "RUNNING"

C18Step ==
  state = "GAMEOVER" =>
    \/ state' = "GAMEOVER"
    \/ FreshStart' /\ state' = "RUNNING"

\* C18: GAMEOVER is terminal for a session: once the state is GAMEOVER it
\* stays GAMEOVER under stop(), a lane input and every tick, until start()
\* moves it to RUNNING; STOPPED is never entered from GAMEOVER.
C18_GameOverTerminal == [][C18Step]_vars

\* C19: in every reachable state, for any interleaving of start(), stop(),
\* gameOver and ticks, at most one frame-tick callback and at most one
\* wall-clock timer is registered.
C19_OneLoopOneTimer ==
  /\ Len(rafQueue) <= 1
  /\ intervals <= 1

C20Step ==
  /\ state' = "RUNNING" => timeLeft' \in 1..StartTime
  /\ (state = "RUNNING" /\ handler' = "timer") => timeLeft' = timeLeft - 1
  /\ (state = "RUNNING" /\ state' = "RUNNING" /\ handler' # "timer")
       => timeLeft' = timeLeft

\* C20: with the wall-clock tick fair, every session that enters RUNNING
\* leaves RUNNING (for GAMEOVER or STOPPED), after at most 60 wall-clock
\* ticks: a running session has between 1 and 60 seconds left, each
\* wall-clock tick takes exactly one of them and nothing gives one back,
\* whatever the frame ticks, the spawned items and the lane inputs are.
C20_SessionEnds ==
  /\ [][C20Step]_vars
  /\ (state = "RUNNING") ~> (state # "RUNNING")

\* C20 witness: the wall clock alone ended a session, at its 60th tick,
\* with an item still falling.
C20_Witness ==
  /\ state = "GAMEOVER"
  /\ handler = "timer"
  /\ timeLeft = 0
  /\ level = 4
  /\ items # <<>>

====
